---- MODULE Spec2Model ----
(***************************************************************************)
(* Order-book synchronisation engine of gdax-bookmap: the Binance feed     *)
(* client (range-continuity sync gate) and the Bitstamp feed client        *)
(* (monotonic-timestamp sync gate), their read loops, and the batch writer *)
(* that persists Sync / Diff / Trade records.                              *)
(*                                                                         *)
(* One feed client is modelled per behaviour; which one is fixed at        *)
(* construction (the clients share no state).  A step of the read loop is  *)
(* one iteration: Socket.ReadMessage returns a frame and the loop body     *)
(* runs on it to its continue / return.                                    *)
(***************************************************************************)
EXTENDS Integers, Sequences, FiniteSets, TLC

\* ------------------------------------------------------------------ bounds
MaxSeq == 3
MaxPrice == 1
MaxSize == 1
MaxTrades == 1
MaxSidePrice == 4

Seqs == 0..MaxSeq
Prices == 1..MaxPrice
Sizes == 0..MaxSize

VARIABLES
    exchange,     \* "binance" | "bitstamp": which feed client this is
    dbEnabled,    \* Client.dbEnabled
    pc,           \* position of Run/run: "connect" | "read" | "exited"
    initialSync,  \* local of the Binance run(): first text frame still to come
    book,         \* the orderbook.Book of the tracked product
    batch,        \* its util.BookBatchWrite
    outcome,      \* history: how the last frame that was not skipped ended
    connSynced,   \* history: SyncBook was invoked since the last Connect
    gapFree,      \* history, kept under SpecChain: every update applied since
                  \* the last snapshot extended the sequence it was applied to
    replica       \* history, kept under SpecReplay: the levels a reader of
                  \* the persisted records reconstructs

vars == <<exchange, dbEnabled, pc, initialSync, book, batch,
          outcome, connSynced, gapFree, replica>>

\* ------------------------------------------------------- price level tables
Level(p, s) == [price |-> p, size |-> s]

RemoveLevel(tab, p) == {l \in tab : l.price # p}

UpsertLevel(tab, p, s) == RemoveLevel(tab, p) \cup {Level(p, s)}

\* Tables in which price is the key and no level is a tombstone.
LevelTables ==
    {{Level(p, f[p]) : p \in D} : f \in [Prices -> 1..MaxSize], D \in SUBSET Prices}

UpdateBidLevel(b, p, s) ==
    [b EXCEPT !.Bid = IF s = 0 THEN RemoveLevel(@, p) ELSE UpsertLevel(@, p, s),
              !.Diff.Bid = UpsertLevel(@, p, s)]

UpdateAskLevel(b, p, s) ==
    [b EXCEPT !.Ask = IF s = 0 THEN RemoveLevel(@, p) ELSE UpsertLevel(@, p, s),
              !.Diff.Ask = UpsertLevel(@, p, s)]

PurgeZero(tab) == {l \in tab : l.size # 0}

FixBookLevels(b) ==
    [b EXCEPT !.Bid = PurgeZero(@), !.Ask = PurgeZero(@),
              !.Diff.Bid = PurgeZero(@), !.Diff.Ask = PurgeZero(@)]

ResetDiff(b) == [b EXCEPT !.Diff = [Bid |-> {}, Ask |-> {}]]

NewBook ==
    [Sequence |-> 0, Synced |-> FALSE, Bid |-> {}, Ask |-> {},
     Diff |-> [Bid |-> {}, Ask |-> {}], Trades |-> <<>>]

\* ------------------------------------------------------------ trades
Max(S) == CHOOSE x \in S : \A y \in S : y <= x
Min(S) == CHOOSE x \in S : \A y \in S : x <= y
Abs(x) == IF x < 0 THEN -x ELSE x

BestBid(b) == Max({l.price : l \in b.Bid})
BestAsk(b) == Min({l.price : l \in b.Ask})

GetSide(b, price) ==
    IF b.Ask # {} /\ price >= BestAsk(b) THEN "buy"
    ELSE IF b.Bid # {} /\ price <= BestBid(b) THEN "sell"
    ELSE IF b.Bid # {} /\ (b.Ask = {} \/ Abs(price - BestBid(b)) < Abs(price - BestAsk(b)))
         THEN "sell"
    ELSE "buy"

AddTrade(b, side, price, size) ==
    [b EXCEPT !.Trades = Append(@, [side |-> side, price |-> price, size |-> size])]

\* ------------------------------------------------------------ snapshot fetch
\* Outcomes of the REST snapshot request made by SyncBook.
NoFetch == [ok |-> FALSE, seq |-> 0, bid |-> {}, ask |-> {}]

FetchOutcomes ==
    {NoFetch} \cup
    {[ok |-> TRUE, seq |-> s, bid |-> bt, ask |-> at] :
        s \in 1..MaxSeq, bt \in LevelTables, at \in LevelTables}

SyncBook(b, fetch) ==
    IF ~fetch.ok
    THEN [err |-> TRUE, book |-> [b EXCEPT !.Synced = FALSE]]
    ELSE [err |-> FALSE,
          book |-> [b EXCEPT !.Synced = FALSE, !.Sequence = fetch.seq,
                             !.Bid = fetch.bid, !.Ask = fetch.ask,
                             !.Diff = [Bid |-> fetch.bid, Ask |-> fetch.ask]]]

\* ------------------------------------------------------------ wire records
PackSync(b) ==
    [type |-> "Sync", seq |-> b.Sequence, bid |-> b.Bid, ask |-> b.Ask]

PackDiff(first, last, diff) ==
    [type |-> "Diff", seq |-> first, first |-> first, last |-> last,
     bid |-> diff.Bid, ask |-> diff.Ask]

\* PackTrade leaving the side byte at its zero value.
PackTrade_NoSide(trade) ==
    [type |-> "Trade", seq |-> 0, side |-> "buy",
     price |-> trade.price, size |-> trade.size]

PackTrade(trade) ==
    [type |-> "Trade", seq |-> 0, side |-> trade.side,
     price |-> trade.price, size |-> trade.size]

\* ------------------------------------------------------------ batch writer
\* A client state st is [book, batch, store, out]: store holds the records
\* handed to batch.Write, in order; out tells how the loop iteration ended.
Write(st, pkt) == [st EXCEPT !.store = Append(@, pkt)]

\* WriteDiff without the FixBookLevels call: the pending diff is encoded as
\* it stands, tombstones included.
WriteDiff_NoFix(st) ==
    LET diff == st.book.Diff
    IN  IF diff.Bid # {} \/ diff.Ask # {}
        THEN LET w == Write(st, PackDiff(st.batch.LastDiffSeq, st.book.Sequence, diff))
             IN  [w EXCEPT !.book = ResetDiff(@),
                           !.batch.LastDiffSeq = w.book.Sequence + 1]
        ELSE st

\* WriteDiff without the ResetDiff call.
WriteDiff_NoReset(st) ==
    LET fixed == [st EXCEPT !.book = FixBookLevels(@)]
        diff  == fixed.book.Diff
    IN  IF diff.Bid # {} \/ diff.Ask # {}
        THEN LET w == Write(fixed, PackDiff(fixed.batch.LastDiffSeq, fixed.book.Sequence, diff))
             IN  [w EXCEPT !.batch.LastDiffSeq = w.book.Sequence + 1]
        ELSE fixed

\* WriteDiff without the test for an empty pending diff.
WriteDiff_Unconditional(st) ==
    LET fixed == [st EXCEPT !.book = FixBookLevels(@)]
        diff  == fixed.book.Diff
        w     == Write(fixed, PackDiff(fixed.batch.LastDiffSeq, fixed.book.Sequence, diff))
    IN  [w EXCEPT !.book = ResetDiff(@),
                  !.batch.LastDiffSeq = w.book.Sequence + 1]

WriteDiff(st) ==
    LET fixed == [st EXCEPT !.book = FixBookLevels(@)]
        diff  == fixed.book.Diff
    IN  IF diff.Bid # {} \/ diff.Ask # {}
        THEN LET w == Write(fixed, PackDiff(fixed.batch.LastDiffSeq, fixed.book.Sequence, diff))
             IN  [w EXCEPT !.book = ResetDiff(@),
                           !.batch.LastDiffSeq = w.book.Sequence + 1]
        ELSE fixed

\* WriteSync leaving batch.LastDiffSeq as it was.
WriteSync_KeepLastDiffSeq(st) ==
    LET fixed == [st EXCEPT !.book = FixBookLevels(@)]
        w     == Write(fixed, PackSync(fixed.book))
    IN  [w EXCEPT !.book = ResetDiff(@)]

WriteSync(st) ==
    LET fixed == [st EXCEPT !.book = FixBookLevels(@)]
        w     == Write(fixed, PackSync(fixed.book))
    IN  [w EXCEPT !.book = ResetDiff(@),
                  !.batch.LastDiffSeq = w.book.Sequence + 1]

\* The tail of HandleMessage.  traded: a trade was added by this message.
\* timer: what the clock says, "sync" (NextSync), "diff" (NextDiff, only
\* asked when NextSync is false) or "none".
WriteBatch(st, enabled, traded, timer) ==
    IF ~enabled THEN st
    ELSE LET t == IF traded
                  THEN Write(st, PackTrade(st.book.Trades[Len(st.book.Trades)]))
                  ELSE st
         IN  IF timer = "sync" THEN WriteSync(t)
             ELSE IF timer = "diff" THEN WriteDiff(t)
             ELSE t

\* ------------------------------------------------------------ level changes
RECURSIVE ApplyBids(_, _)
ApplyBids(b, changes) ==
    IF changes = <<>> THEN b
    ELSE ApplyBids(UpdateBidLevel(b, Head(changes).price, Head(changes).size),
                   Tail(changes))

RECURSIVE ApplyAsks(_, _)
ApplyAsks(b, changes) ==
    IF changes = <<>> THEN b
    ELSE ApplyAsks(UpdateAskLevel(b, Head(changes).price, Head(changes).size),
                   Tail(changes))

\* ------------------------------------------------------------ sync gates
\* BinanceUpdateSync with the stale test off by one (first < seq).
BinanceUpdateSync_StaleOffByOne(b, first, last, fetch) ==
    LET seq  == b.Sequence
        next == seq + 1
    IN  IF first < seq
        THEN [err |-> "stale", book |-> b]
        ELSE IF b.Synced
        THEN IF first # next
             THEN [err |-> "resync", book |-> SyncBook(b, fetch).book]
             ELSE [err |-> "nil", book |-> [b EXCEPT !.Sequence = last]]
        ELSE [err |-> "nil",
              book |-> [b EXCEPT !.Synced = IF first <= next /\ last >= next
                                             THEN TRUE ELSE @,
                                 !.Sequence = last]]

\* BinanceUpdateSync advancing the sequence to first instead of last.
BinanceUpdateSync_AdvanceToFirst(b, first, last, fetch) ==
    LET seq  == b.Sequence
        next == seq + 1
    IN  IF first <= seq
        THEN [err |-> "stale", book |-> b]
        ELSE IF b.Synced
        THEN IF first # next
             THEN [err |-> "resync", book |-> SyncBook(b, fetch).book]
             ELSE [err |-> "nil", book |-> [b EXCEPT !.Sequence = first]]
        ELSE [err |-> "nil",
              book |-> [b EXCEPT !.Synced = IF first <= next /\ last >= next
                                             THEN TRUE ELSE @,
                                 !.Sequence = first]]

\* Range-continuity gate (Binance).  err is "nil", "stale" or "resync".
BinanceUpdateSync(b, first, last, fetch) ==
    LET seq  == b.Sequence
        next == seq + 1
    IN  IF first <= seq
        THEN [err |-> "stale", book |-> b]
        ELSE IF b.Synced
        THEN IF first # next
             THEN [err |-> "resync", book |-> SyncBook(b, fetch).book]
             ELSE [err |-> "nil", book |-> [b EXCEPT !.Sequence = last]]
        ELSE [err |-> "nil",
              book |-> [b EXCEPT !.Synced = IF first <= next /\ last >= next
                                             THEN TRUE ELSE @,
                                 !.Sequence = last]]

\* BitstampUpdateSync dropping an update whose timestamp equals the current one.
BitstampUpdateSync_StaleOnEqual(b, last) ==
    IF last <= b.Sequence
    THEN [err |-> "stale", book |-> b]
    ELSE [err |-> "nil", book |-> [b EXCEPT !.Sequence = last]]

\* Monotonic-timestamp gate (Bitstamp).
BitstampUpdateSync(b, last) ==
    IF last < b.Sequence
    THEN [err |-> "stale", book |-> b]
    ELSE [err |-> "nil", book |-> [b EXCEPT !.Sequence = last]]

\* ------------------------------------------------------------ HandleMessage
TradeOf(st, m) ==
    [st EXCEPT !.book = AddTrade(@, GetSide(@, m.price), m.price, m.size),
               !.out = "trade"]

\* BinanceHandleMessage returning early only on a stale update, so that the
\* levels of an update that triggered a resync are applied.
BinanceHandleMessage_ApplyOnResync(st, m, enabled, fetch, timer) ==
    IF m.event = "depthUpdate"
    THEN LET r == BinanceUpdateSync(st.book, m.first, m.last, fetch)
         IN  IF r.err = "stale"
             THEN [st EXCEPT !.book = r.book, !.out = r.err]
             ELSE WriteBatch([st EXCEPT !.book = ApplyAsks(ApplyBids(r.book, m.bids), m.asks),
                                        !.out = IF r.err = "nil" THEN "accept" ELSE r.err],
                             enabled, FALSE, timer)
    ELSE IF m.event = "aggTrade"
    THEN WriteBatch(TradeOf(st, m), enabled, TRUE, timer)
    ELSE st

BinanceHandleMessage(st, m, enabled, fetch, timer) ==
    IF m.event = "depthUpdate"
    THEN LET r == BinanceUpdateSync(st.book, m.first, m.last, fetch)
         IN  IF r.err # "nil"
             THEN [st EXCEPT !.book = r.book, !.out = r.err]
             ELSE WriteBatch([st EXCEPT !.book = ApplyAsks(ApplyBids(r.book, m.bids), m.asks),
                                        !.out = "accept"],
                             enabled, FALSE, timer)
    ELSE IF m.event = "aggTrade"
    THEN WriteBatch(TradeOf(st, m), enabled, TRUE, timer)
    ELSE st

\* BitstampHandleMessage going on to the batch writer after a stale update.
BitstampHandleMessage_WriteOnStale(st, m, enabled, timer) ==
    IF m.event = "data"
    THEN LET r == BitstampUpdateSync(st.book, m.last)
         IN  IF r.err # "nil"
             THEN WriteBatch([st EXCEPT !.out = r.err], enabled, FALSE, timer)
             ELSE WriteBatch([st EXCEPT !.book = ApplyAsks(ApplyBids(r.book, m.bids), m.asks),
                                        !.out = "accept"],
                             enabled, FALSE, timer)
    ELSE IF m.event = "trade"
    THEN WriteBatch(TradeOf(st, m), enabled, TRUE, timer)
    ELSE st

BitstampHandleMessage(st, m, enabled, timer) ==
    IF m.event = "data"
    THEN LET r == BitstampUpdateSync(st.book, m.last)
         IN  IF r.err # "nil"
             THEN [st EXCEPT !.out = r.err]
             ELSE WriteBatch([st EXCEPT !.book = ApplyAsks(ApplyBids(r.book, m.bids), m.asks),
                                        !.out = "accept"],
                             enabled, FALSE, timer)
    ELSE IF m.event = "trade"
    THEN WriteBatch(TradeOf(st, m), enabled, TRUE, timer)
    ELSE st

\* ------------------------------------------------------------ frames
Frame(kind, stream, event, first, last, bids, asks, price, size) ==
    [kind |-> kind, stream |-> stream, event |-> event, first |-> first,
     last |-> last, bids |-> bids, asks |-> asks, price |-> price, size |-> size]

\* A depth update lists at most one changed level.
Changes == {<<Level(p, s)>> : p \in Prices, s \in Sizes}

ChangePairs ==
    {<<bs, <<>> >> : bs \in Changes \cup {<<>>}} \cup {<< <<>>, as >> : as \in Changes}

BinanceStreams == {"btcusdt@depth", "btcusdt@aggTrade"}

BinanceDepth ==
    {Frame("text", "btcusdt@depth", "depthUpdate", f, l, c[1], c[2], 0, 0) :
        f \in Seqs, l \in Seqs, c \in ChangePairs}

BinanceTrades ==
    {Frame("text", "btcusdt@aggTrade", "aggTrade", 0, 0, <<>>, <<>>, p, s) :
        p \in Prices, s \in 1..MaxSize}

BinanceOther ==
         {Frame("text", "btcusdt@depth", "other", 0, 0, <<>>, <<>>, 0, 0),
          Frame("text", "ethusdt@depth", "depthUpdate", 0, 0, <<>>, <<>>, 0, 0),
          Frame("binary", "none", "none", 0, 0, <<>>, <<>>, 0, 0)}

BinanceMessages == BinanceDepth \cup BinanceTrades \cup BinanceOther

BitstampChannels == {"diff_order_book", "live_trades"}

PusherEvents ==
    {"pusher:connection_established", "pusher_internal:subscription_succeeded",
     "pusher:pong", "pusher:ping"}

BitstampDepth ==
    {Frame("text", "diff_order_book", "data", 0, l, c[1], c[2], 0, 0) :
        l \in Seqs, c \in ChangePairs}

BitstampTrades ==
    {Frame("text", "live_trades", "trade", 0, 0, <<>>, <<>>, p, s) :
        p \in Prices, s \in 1..MaxSize}

BitstampOther ==
         {Frame("text", "diff_order_book", "other", 0, 0, <<>>, <<>>, 0, 0),
          Frame("text", "diff_order_book_ethusd", "data", 0, 0, <<>>, <<>>, 0, 0),
          Frame("text", "", "pusher:ping", 0, 0, <<>>, <<>>, 0, 0),
          Frame("binary", "none", "none", 0, 0, <<>>, <<>>, 0, 0)}

BitstampMessages == BitstampDepth \cup BitstampTrades \cup BitstampOther

IsTrade(m) == m.event \in {"aggTrade", "trade"}

\* ------------------------------------------------------------ read loops
\* The body of the Binance read loop for one frame.
BinanceBody(st, m, initSync, enabled, fetch, timer) ==
    IF m.kind # "text" THEN st
    ELSE IF initSync
    THEN [st EXCEPT !.book = SyncBook(@, fetch).book, !.out = "sync"]
    ELSE IF m.stream \notin BinanceStreams THEN st
    ELSE BinanceHandleMessage(st, m, enabled, fetch, timer)

\* The body of the Bitstamp read loop for one frame.
BitstampBody(st, m, enabled, fetch, timer) ==
    IF m.kind # "text" THEN st
    ELSE IF m.event \in PusherEvents THEN st
    ELSE IF m.stream \notin BitstampChannels THEN st
    ELSE IF st.book.Sequence = 0
    THEN [st EXCEPT !.book = SyncBook(@, fetch).book, !.out = "sync"]
    ELSE BitstampHandleMessage(st, m, enabled, timer)

\* The client state a loop iteration starts from.
Client == [book |-> book, batch |-> batch, store |-> <<>>, out |-> outcome]

\* The clock is read only when the batch writer is reached.
Timers(st) ==
    IF dbEnabled /\ st.out \in {"accept", "trade"} THEN {"none", "sync", "diff"} ELSE {"none"}

SyncInvoked(st) == st.out \in {"sync", "resync"}

\* ------------------------------------------------------------ replay
\* What a reader of the persisted records does with one record.
ReplayLevels(tab, changes) ==
    {l \in tab : \A c \in changes : c.price # l.price} \cup {c \in changes : c.size # 0}

ReplayRecord(r, pkt) ==
    IF pkt.type = "Sync" THEN [Bid |-> pkt.bid, Ask |-> pkt.ask]
    ELSE IF pkt.type = "Diff"
    THEN [Bid |-> ReplayLevels(r.Bid, pkt.bid), Ask |-> ReplayLevels(r.Ask, pkt.ask)]
    ELSE r

RECURSIVE Replay(_, _)
Replay(r, pkts) ==
    IF pkts = <<>> THEN r ELSE Replay(ReplayRecord(r, Head(pkts)), Tail(pkts))

\* The replica after the records of one loop iteration; fresh tells that a
\* Sync or Diff record was among them.
Reader(r, pkts) ==
    LET levels == Replay([Bid |-> r.Bid, Ask |-> r.Ask], pkts)
    IN  [Bid |-> levels.Bid, Ask |-> levels.Ask,
         fresh |-> \E i \in 1..Len(pkts) : pkts[i].type \in {"Sync", "Diff"}]

\* ------------------------------------------------------------ actions
Init ==
    /\ exchange \in {"binance", "bitstamp"}
    /\ dbEnabled \in BOOLEAN
    /\ pc = "connect"
    /\ initialSync = FALSE
    /\ book = NewBook
    /\ batch = [LastDiffSeq |-> 0]
    /\ replica = [Bid |-> {}, Ask |-> {}, fresh |-> FALSE]
    /\ outcome = "none"
    /\ connSynced = FALSE
    /\ gapFree = TRUE

\* Binance Connect: a failed dial is log.Fatal.
BinanceConnect ==
    /\ exchange = "binance"
    /\ pc = "connect"
    /\ \E dialed \in BOOLEAN :
          IF dialed
          THEN pc' = "read" /\ initialSync' = TRUE
          ELSE pc' = "exited" /\ initialSync' = initialSync
    /\ connSynced' = FALSE
    /\ outcome' = "none"
    /\ UNCHANGED <<exchange, dbEnabled, book, batch, replica, gapFree>>

\* Bitstamp run(): a failed Connect sleeps and returns to Run's loop.
BitstampConnect ==
    /\ exchange = "bitstamp"
    /\ pc = "connect"
    /\ \E dialed \in BOOLEAN : pc' = IF dialed THEN "read" ELSE "connect"
    /\ connSynced' = FALSE
    /\ outcome' = "none"
    /\ UNCHANGED <<exchange, dbEnabled, initialSync, book, batch, replica, gapFree>>

\* Socket.ReadMessage returns an error: run() returns, Run calls it again.
ReadError ==
    /\ pc = "read"
    /\ pc' = "connect"
    /\ outcome' = "none"
    /\ UNCHANGED <<exchange, dbEnabled, initialSync, book, batch, replica,
                   connSynced, gapFree>>

\* One iteration of the Binance read loop on a frame of `frames`; hist names
\* the optional history variables the step maintains.
BinanceStep(frames, hist) ==
    /\ exchange = "binance"
    /\ pc = "read"
    /\ \E m \in frames :
       LET probe == BinanceBody(Client, m, initialSync, dbEnabled, NoFetch, "none") IN
       \E timer \in Timers(probe) :
       \E fetch \in (IF SyncInvoked(probe) THEN FetchOutcomes ELSE {NoFetch}) :
          LET st == BinanceBody(Client, m, initialSync, dbEnabled, fetch, timer)
          IN  /\ IsTrade(m) => Len(book.Trades) < MaxTrades
              /\ book' = st.book
              /\ batch' = st.batch
              /\ outcome' = st.out
              /\ connSynced' = (connSynced \/ SyncInvoked(st))
              /\ gapFree' = IF "chain" \notin hist THEN gapFree
                            ELSE IF SyncInvoked(st) /\ fetch.ok THEN TRUE
                            ELSE IF st.out = "accept"
                            THEN gapFree /\ m.first <= book.Sequence + 1
                                         /\ book.Sequence + 1 <= m.last
                            ELSE gapFree
              /\ replica' = IF "replay" \in hist THEN Reader(replica, st.store) ELSE replica
              /\ initialSync' = IF m.kind = "text" THEN FALSE ELSE initialSync
    /\ UNCHANGED <<exchange, dbEnabled, pc>>

\* One iteration of the Bitstamp read loop on a frame of `frames`.
BitstampStep(frames, hist) ==
    /\ exchange = "bitstamp"
    /\ pc = "read"
    /\ \E m \in frames :
       LET probe == BitstampBody(Client, m, dbEnabled, NoFetch, "none") IN
       \E timer \in Timers(probe) :
       \E fetch \in (IF SyncInvoked(probe) THEN FetchOutcomes ELSE {NoFetch}) :
          LET st == BitstampBody(Client, m, dbEnabled, fetch, timer)
          IN  /\ IsTrade(m) => Len(book.Trades) < MaxTrades
              /\ book' = st.book
              /\ batch' = st.batch
              /\ outcome' = st.out
              /\ connSynced' = (connSynced \/ SyncInvoked(st))
              /\ replica' = IF "replay" \in hist THEN Reader(replica, st.store) ELSE replica
    /\ UNCHANGED <<exchange, dbEnabled, pc, initialSync, gapFree>>

\* The two feed clients, each with or without persistence.
Next ==
    \/ BinanceConnect
    \/ BitstampConnect
    \/ ReadError
    \/ BinanceStep(BinanceMessages, {})
    \/ BitstampStep(BitstampMessages, {})

Spec == Init /\ [][Next]_vars

\* The Binance client without persistence, keeping the chain history.
InitChain == Init /\ exchange = "binance" /\ dbEnabled = FALSE

NextChain ==
    \/ BinanceConnect
    \/ ReadError
    \/ BinanceStep(BinanceMessages, {"chain"})

SpecChain == InitChain /\ [][NextChain]_vars

\* Both clients with persistence on a feed without trades, keeping the
\* replica a reader of the persisted records reconstructs.
InitReplay == Init /\ dbEnabled = TRUE

NextReplay ==
    \/ BinanceConnect
    \/ BitstampConnect
    \/ ReadError
    \/ BinanceStep(BinanceDepth \cup BinanceOther, {"replay"})
    \/ BitstampStep(BitstampDepth \cup BitstampOther, {"replay"})

SpecReplay == InitReplay /\ [][NextReplay]_vars

\* Both clients with persistence, reading after a snapshot has been
\* installed, on a feed of trades over a wider price range: the side
\* classifier on books with a spread.
SidePrices == 1..MaxSidePrice

SideTables == {{Level(p, 1) : p \in D} : D \in SUBSET SidePrices}

SideBooks ==
    {SyncBook(NewBook, [ok |-> TRUE, seq |-> 1, bid |-> bt, ask |-> at]).book :
        bt \in SideTables, at \in SideTables}

BinanceSideTrades ==
    {Frame("text", "btcusdt@aggTrade", "aggTrade", 0, 0, <<>>, <<>>, p, 1) :
        p \in SidePrices}

BitstampSideTrades ==
    {Frame("text", "live_trades", "trade", 0, 0, <<>>, <<>>, p, 1) :
        p \in SidePrices}

InitSide ==
    /\ exchange \in {"binance", "bitstamp"}
    /\ dbEnabled = TRUE
    /\ pc = "read"
    /\ initialSync = FALSE
    /\ book \in SideBooks
    /\ batch = [LastDiffSeq |-> 0]
    /\ replica = [Bid |-> {}, Ask |-> {}, fresh |-> FALSE]
    /\ outcome = "sync"
    /\ connSynced = TRUE
    /\ gapFree = TRUE

NextSide ==
    \/ BinanceConnect
    \/ BitstampConnect
    \/ ReadError
    \/ BinanceStep(BinanceSideTrades \cup BinanceOther, {})
    \/ BitstampStep(BitstampSideTrades \cup BitstampOther, {})

SpecSide == InitSide /\ [][NextSide]_vars

\* ==================================================================== claims
AllTimers == {"none", "sync", "diff"}

\* The table a reader expects after a list of changes without repeated price.
Expected(tab, changes) ==
    ReplayLevels(tab, {changes[i] : i \in 1..Len(changes)})

\* The Binance loop is past its initial sync, so a frame reaches HandleMessage.
BinanceHandling == exchange = "binance" /\ pc = "read" /\ ~initialSync

\* The Bitstamp loop hands frames for the book to HandleMessage.
BitstampHandling == exchange = "bitstamp" /\ pc = "read" /\ book.Sequence # 0

Straddles(m) == m.first <= book.Sequence + 1 /\ book.Sequence + 1 <= m.last

\* C1: range-continuity policy: whenever the book is synced, every update
\* applied since the last snapshot extended the sequence it was applied to
\* (first <= sequence before + 1 <= last), so no update id was skipped.
C1_GapFreeChain == (exchange = "binance" /\ book.Synced) => gapFree

\* C2: range-continuity policy, book not synced, first > current: the update
\* is accepted and the book marked synced exactly when first <= current+1 <=
\* last; otherwise it is discarded, the book (levels, sequence, synced flag)
\* being left as it was.
C2_UnsyncedGate ==
    (BinanceHandling /\ ~book.Synced) =>
        \A m \in BinanceDepth, timer \in AllTimers :
            m.first > book.Sequence =>
                LET st == BinanceBody(Client, m, initialSync, dbEnabled, NoFetch, timer)
                IN  IF Straddles(m)
                    THEN st.out = "accept" /\ st.book.Synced
                    ELSE /\ st.book.Bid = book.Bid
                         /\ st.book.Ask = book.Ask
                         /\ st.book.Sequence = book.Sequence
                         /\ ~st.book.Synced

\* C3: range-continuity policy, book synced, first > current and first #
\* current+1: the verdict is ResyncRequired, SyncBook is invoked and leaves
\* the book unsynced, nothing is written, and the book holds what SyncBook
\* alone left (the fetched snapshot, or the old levels if the fetch failed):
\* none of the update's changes is in the levels or in the pending diff.
C3_GapResync ==
    (BinanceHandling /\ book.Synced) =>
        \A m \in BinanceDepth, timer \in AllTimers, fetch \in FetchOutcomes :
            (m.first > book.Sequence /\ m.first # book.Sequence + 1) =>
                LET st == BinanceBody(Client, m, initialSync, dbEnabled, fetch, timer)
                IN  /\ st.out = "resync"
                    /\ ~st.book.Synced
                    /\ st.store = <<>>
                    /\ st.batch = batch
                    /\ st.book.Trades = book.Trades
                    /\ IF fetch.ok
                       THEN /\ st.book.Bid = fetch.bid
                            /\ st.book.Ask = fetch.ask
                            /\ st.book.Diff = [Bid |-> fetch.bid, Ask |-> fetch.ask]
                            /\ st.book.Sequence = fetch.seq
                       ELSE /\ st.book.Bid = book.Bid
                            /\ st.book.Ask = book.Ask
                            /\ st.book.Diff = book.Diff
                            /\ st.book.Sequence = book.Sequence

C3_Witness == exchange = "binance" /\ outcome = "resync" /\ ~book.Synced /\ pc = "read"

\* C4: a stale depth update (range-continuity: first <= book.Sequence;
\* monotonic-timestamp: last < book.Sequence) handed to HandleMessage leaves
\* the book (sequence, synced flag, both level tables, pending diff, trades)
\* and the batch state unchanged and writes no record.
C4_StaleDropped ==
    /\ BinanceHandling =>
          \A m \in BinanceDepth, timer \in AllTimers, fetch \in {NoFetch} :
              m.first <= book.Sequence =>
                  LET st == BinanceBody(Client, m, initialSync, dbEnabled, fetch, timer)
                  IN  st.out = "stale" /\ st.book = book /\ st.batch = batch /\ st.store = <<>>
    /\ BitstampHandling =>
          \A m \in BitstampDepth, timer \in AllTimers :
              m.last < book.Sequence =>
                  LET st == BitstampBody(Client, m, dbEnabled, NoFetch, timer)
                  IN  st.out = "stale" /\ st.book = book /\ st.batch = batch /\ st.store = <<>>

C4_Witness ==
    /\ outcome = "stale" /\ pc = "read" /\ dbEnabled
    /\ book.Sequence > 0 /\ book.Bid # {} /\ book.Diff.Bid # {}

\* C5 as stated: on every non-stale verdict of the range-continuity gate,
\* Accept and ResyncRequired alike, book.Sequence is the update's last id
\* when UpdateSync returns.
C5_AdvanceOnNonStale ==
    BinanceHandling =>
        \A m \in BinanceDepth, fetch \in FetchOutcomes :
            m.first > book.Sequence =>
                BinanceUpdateSync(book, m.first, m.last, fetch).book.Sequence = m.last

\* C5 amended: whenever the range-continuity gate accepts an update
\* (UpdateSync returns nil), book.Sequence is the update's last id; on
\* ResyncRequired the gate assigns nothing and the sequence is the one
\* SyncBook left (the snapshot's, or the old one if the fetch failed).
C5_AdvanceOnAccept ==
    BinanceHandling =>
        \A m \in BinanceDepth, fetch \in FetchOutcomes :
            m.first > book.Sequence =>
                LET r == BinanceUpdateSync(book, m.first, m.last, fetch)
                IN  /\ r.err \in {"nil", "resync"}
                    /\ r.err = "resync" <=> (book.Synced /\ m.first # book.Sequence + 1)
                    /\ r.err = "nil" => r.book.Sequence = m.last
                    /\ r.err = "resync" =>
                          r.book.Sequence = IF fetch.ok THEN fetch.seq ELSE book.Sequence

C5_Witness ==
    exchange = "binance" /\ outcome = "accept" /\ book.Sequence = MaxSeq /\ book.Synced

\* C6: book.Sequence never decreases over a depth update handled by
\* UpdateSync, under either policy and for any first and last.
C6_SequenceMonotonic ==
    /\ BinanceHandling =>
          \A m \in BinanceDepth, fetch \in FetchOutcomes :
              BinanceUpdateSync(book, m.first, m.last, fetch).book.Sequence >= book.Sequence
    /\ BitstampHandling =>
          \A m \in BitstampDepth :
              BitstampUpdateSync(book, m.last).book.Sequence >= book.Sequence

\* C7: monotonic-timestamp policy, current sequence S, update with last L
\* handed to HandleMessage: stale exactly when L < S, the book unchanged;
\* otherwise (L = S included) accepted, its level changes applied and
\* book.Sequence = L.
C7_MonotonicGate ==
    BitstampHandling =>
        \A m \in BitstampDepth, timer \in AllTimers :
            LET st == BitstampBody(Client, m, dbEnabled, NoFetch, timer)
            IN  IF m.last < book.Sequence
                THEN st.out = "stale" /\ st.book = book
                ELSE /\ st.out = "accept"
                     /\ st.book.Sequence = m.last
                     /\ st.book.Bid = Expected(book.Bid, m.bids)
                     /\ st.book.Ask = Expected(book.Ask, m.asks)

C7_Witness ==
    /\ exchange = "bitstamp" /\ outcome = "accept" /\ pc = "read"
    /\ book.Sequence = MaxSeq /\ book.Bid # {} /\ book.Ask # {}

\* C8: after a reconnect no depth update changes a book (levels, sequence)
\* before SyncBook has been invoked for it on the new connection.
C8_ResyncOnReconnect ==
    [][~connSynced' =>
          /\ book'.Bid = book.Bid
          /\ book'.Ask = book.Ask
          /\ book'.Sequence = book.Sequence]_vars

\* C9: no transport failure (failed dial, failed read) ends the process.
C9_NeverFatal == pc # "exited"

\* C10: just after a Sync or Diff record has been written, replaying the
\* persisted records in order yields exactly the live book's bid and ask
\* levels.
C10_ReplayExact ==
    replica.fresh => (replica.Bid = book.Bid /\ replica.Ask = book.Ask)

\* ------------------------------------------------- one loop iteration, any input
\* The records handed to batch.Write by a loop iteration.
Records(st) == {st.store[i] : i \in 1..Len(st.store)}

BookRecords(st) == {pkt \in Records(st) : pkt.type \in {"Sync", "Diff"}}

\* Every way the next loop iteration can go when no snapshot comes back:
\* the frame read, what the clock says, and the client state it ends in.
Runs ==
    IF exchange = "binance"
    THEN {[m |-> m, timer |-> t,
           st |-> BinanceBody(Client, m, initialSync, dbEnabled, NoFetch, t)] :
              m \in BinanceMessages, t \in AllTimers}
    ELSE {[m |-> m, timer |-> t,
           st |-> BitstampBody(Client, m, dbEnabled, NoFetch, t)] :
              m \in BitstampMessages, t \in AllTimers}

HasTombstone(diff) == \E l \in diff.Bid \cup diff.Ask : l.size = 0

\* C11: no zero-size level reaches the wire: every Sync record and every
\* Diff record a loop iteration writes lists only levels with size # 0,
\* whatever removals are pending or carried by the frame.
C11_NoZeroOnWire ==
    pc = "read" =>
        \A r \in Runs : \A pkt \in BookRecords(r.st) :
            \A l \in pkt.bid \cup pkt.ask : l.size # 0

\* A removal is pending and the next iteration can write a Diff record.
C11_Witness ==
    /\ pc = "read" /\ dbEnabled /\ HasTombstone(book.Diff)
    /\ \E r \in Runs : \E pkt \in BookRecords(r.st) : pkt.type = "Diff"

\* C12: every Diff record written lists at least one bid or ask level; when
\* the diff timer fires while the purged pending diff is empty on both
\* sides, WriteDiff writes nothing (no Sync or Diff record) and LastDiffSeq
\* is unchanged.
C12_NoEmptyDiff ==
    pc = "read" =>
        \A r \in Runs :
            /\ \A pkt \in BookRecords(r.st) :
                   pkt.type = "Diff" => (pkt.bid # {} \/ pkt.ask # {})
            /\ LET idle == IF exchange = "binance"
                           THEN BinanceBody(Client, r.m, initialSync, dbEnabled, NoFetch, "none")
                           ELSE BitstampBody(Client, r.m, dbEnabled, NoFetch, "none")
               IN  (/\ r.timer = "diff"
                    /\ PurgeZero(idle.book.Diff.Bid) = {}
                    /\ PurgeZero(idle.book.Diff.Ask) = {}) =>
                         /\ BookRecords(r.st) = {}
                         /\ r.st.batch.LastDiffSeq = batch.LastDiffSeq

\* Only a removal is pending, and a trade arrives as the diff timer fires.
C12_Witness ==
    /\ pc = "read" /\ dbEnabled /\ HasTombstone(book.Diff)
    /\ PurgeZero(book.Diff.Bid) = {} /\ PurgeZero(book.Diff.Ask) = {}
    /\ \E r \in Runs :
          /\ r.timer = "diff" /\ IsTrade(r.m) /\ r.st.out = "trade"
          /\ BookRecords(r.st) = {} /\ Len(r.st.store) = 1

\* C13: with persistence enabled, every trade event read for the tracked
\* instrument writes exactly one Trade record, carrying the event's price
\* and size, before any Sync or Diff record of the same iteration; whether
\* or not the book is synced, and for the first frames after a connect.
C13_TradeRecorded ==
    (pc = "read" /\ dbEnabled) =>
        \A r \in Runs :
            IsTrade(r.m) =>
                /\ Len(r.st.store) >= 1
                /\ r.st.store[1].type = "Trade"
                /\ r.st.store[1].price = r.m.price
                /\ r.st.store[1].size = r.m.size
                /\ Cardinality({i \in 1..Len(r.st.store) : r.st.store[i].type = "Trade"}) = 1

\* The side the classification rules give a trade at `price` on book b:
\* at or through the best ask, Buy; else at or through the best bid, Sell;
\* else the side of the strictly nearer bid, Buy otherwise.
SideOf(b, price) ==
    IF \E a \in b.Ask : price >= a.price THEN "buy"
    ELSE IF \E l \in b.Bid : price <= l.price THEN "sell"
    ELSE IF \E l \in b.Bid :
               \A a \in b.Ask : Abs(price - l.price) < Abs(price - a.price)
         THEN "sell"
    ELSE "buy"

\* C14: a trade handed to HandleMessage is classified against the book as
\* it is when the event is handled: price >= bestAsk gives Buy, otherwise
\* price <= bestBid gives Sell, otherwise the nearer of bestBid/bestAsk
\* decides (nearer bid Sell, nearer ask Buy, Buy on a tie); the Trade
\* appended to the book and the Trade record written carry that side.
C14_SideClassified ==
    (BinanceHandling \/ BitstampHandling) =>
        \A m \in (IF exchange = "binance" THEN BinanceSideTrades ELSE BitstampSideTrades),
           timer \in AllTimers :
            LET st == IF exchange = "binance"
                      THEN BinanceBody(Client, m, initialSync, dbEnabled, NoFetch, timer)
                      ELSE BitstampBody(Client, m, dbEnabled, NoFetch, timer)
                n  == Len(st.book.Trades)
            IN      /\ st.out = "trade"
                    /\ n = Len(book.Trades) + 1
                    /\ st.book.Trades[n].side = SideOf(book, m.price)
                    /\ st.book.Trades[n].price = m.price
                    /\ dbEnabled =>
                          /\ st.store[1].type = "Trade"
                          /\ st.store[1].side = SideOf(book, m.price)
                          /\ st.store[1].price = m.price

\* A trade strictly inside the spread, nearer the best bid, stored as Sell.
C14_Witness ==
    /\ Len(book.Trades) = 1 /\ outcome = "trade"
    /\ book.Bid # {} /\ book.Ask # {}
    /\ BestBid(book) < book.Trades[1].price
    /\ book.Trades[1].price < BestAsk(book)
    /\ book.Trades[1].side = "sell"

\* The level changes a depth frame carries, per side.
BidChanges(m) == {m.bids[i] : i \in 1..Len(m.bids)}
AskChanges(m) == {m.asks[i] : i \in 1..Len(m.asks)}

NoDiff == [Bid |-> {}, Ask |-> {}]

OneEntryPerPrice(tab) == \A l1 \in tab, l2 \in tab : l1.price = l2.price => l1 = l2

\* C15: after an accepted depth update with a non-zero-size change, taking
\* the pending diff (WriteDiff) yields a non-empty Diff record and leaves
\* the pending diff empty, so that taking it again with no update in
\* between writes nothing; WriteSync leaves it empty as well.  The
\* pending diff holds one entry per price per side, the last one written.
C15_TakeDiffIdempotent ==
    /\ OneEntryPerPrice(book.Diff.Bid) /\ OneEntryPerPrice(book.Diff.Ask)
    /\ (pc = "read" /\ dbEnabled) =>
          \A r \in Runs :
              (/\ r.st.out = "accept"
               /\ r.m.event \in {"depthUpdate", "data"}
               /\ \E ch \in BidChanges(r.m) \cup AskChanges(r.m) : ch.size # 0) =>
                  LET again == WriteDiff([r.st EXCEPT !.store = <<>>])
                  IN  /\ r.timer = "none" =>
                            /\ BidChanges(r.m) \subseteq r.st.book.Diff.Bid
                            /\ AskChanges(r.m) \subseteq r.st.book.Diff.Ask
                            /\ OneEntryPerPrice(r.st.book.Diff.Bid)
                            /\ OneEntryPerPrice(r.st.book.Diff.Ask)
                      /\ r.timer = "diff" =>
                            /\ \E pkt \in Records(r.st) :
                                  /\ pkt.type = "Diff"
                                  /\ BidChanges(r.m) \subseteq pkt.bid
                                  /\ AskChanges(r.m) \subseteq pkt.ask
                                  /\ pkt.bid # {} \/ pkt.ask # {}
                            /\ r.st.book.Diff = NoDiff
                            /\ again.store = <<>>
                            /\ again.book.Diff = NoDiff
                      /\ r.timer = "sync" =>
                            /\ r.st.book.Diff = NoDiff
                            /\ again.store = <<>>

\* A removal of a price is pending, and an update setting that price to a
\* non-zero size is accepted as the diff timer fires.
C15_Witness ==
    /\ pc = "read" /\ dbEnabled /\ HasTombstone(book.Diff)
    /\ \E r \in Runs :
          /\ r.timer = "diff" /\ r.st.out = "accept"
          /\ r.m.event \in {"depthUpdate", "data"}
          /\ \E ch \in BidChanges(r.m) :
                ch.size # 0 /\ Level(ch.price, 0) \in book.Diff.Bid
          /\ \E pkt \in Records(r.st) : pkt.type = "Diff"

\* C16: every Diff record is stamped first = batch.LastDiffSeq and last =
\* book.Sequence as they are when it is written; after a Sync or a Diff
\* record is written the pending diff is empty and LastDiffSeq =
\* book.Sequence + 1; an iteration that writes neither leaves the batch
\* state alone.  Hence a Diff record's first is one more than the book
\* sequence at which the previous Sync or Diff record was written.
C16_DiffRangesTile ==
    pc = "read" =>
        \A r \in Runs :
            /\ \A pkt \in Records(r.st) :
                   pkt.type = "Diff" =>
                       /\ pkt.first = batch.LastDiffSeq
                       /\ pkt.seq = batch.LastDiffSeq
                       /\ pkt.last = r.st.book.Sequence
            /\ \A pkt \in Records(r.st) :
                   pkt.type = "Sync" => pkt.seq = r.st.book.Sequence
            /\ BookRecords(r.st) # {} =>
                   /\ r.st.book.Diff = NoDiff
                   /\ r.st.batch.LastDiffSeq = r.st.book.Sequence + 1
            /\ BookRecords(r.st) = {} => r.st.batch = batch

\* A record was written earlier, and the next iteration can write a Diff
\* record spanning more than one sequence number.
C16_Witness ==
    /\ pc = "read" /\ dbEnabled /\ batch.LastDiffSeq > 1
    /\ \E r \in Runs : \E pkt \in Records(r.st) :
          pkt.type = "Diff" /\ pkt.first = batch.LastDiffSeq /\ pkt.first < pkt.last

\* The frame reaches HandleMessage and is applied there: a trade, or a depth
\* update the sync gate accepts.
Applied(m) ==
    IF exchange = "binance"
    THEN /\ BinanceHandling /\ m.kind = "text" /\ m.stream \in BinanceStreams
         /\ \/ m.event = "aggTrade"
            \/ /\ m.event = "depthUpdate"
               /\ BinanceUpdateSync(book, m.first, m.last, NoFetch).err = "nil"
    ELSE /\ BitstampHandling /\ m.kind = "text" /\ m.stream \in BitstampChannels
         /\ \/ m.event = "trade"
            \/ /\ m.event = "data"
               /\ BitstampUpdateSync(book, m.last).err = "nil"

\* C17: handling one event writes at most one record that is a Sync or a
\* Diff, a Sync when the snapshot trigger fired; and the batch writer runs
\* (a record written, the batch state or the pending diff touched) only
\* after an applied event, never after a stale, gap or unknown one.
C17_OneBookRecord ==
    pc = "read" =>
        \A r \in Runs :
            /\ Cardinality({i \in 1..Len(r.st.store) :
                               r.st.store[i].type \in {"Sync", "Diff"}}) <= 1
            /\ \A pkt \in BookRecords(r.st) :
                   pkt.type = (IF r.timer = "sync" THEN "Sync" ELSE "Diff")
            /\ r.timer = "none" => BookRecords(r.st) = {}
            /\ ~Applied(r.m) =>
                   /\ r.st.store = <<>>
                   /\ r.st.batch = batch
                   /\ r.st.book.Diff = book.Diff
                   /\ r.st.book.Bid = book.Bid /\ r.st.book.Ask = book.Ask

\* The snapshot trigger fires on an accepted update that leaves a non-empty
\* pending diff: one Sync record and no Diff record.
C17_Witness ==
    /\ pc = "read" /\ dbEnabled
    /\ \E r \in Runs, idle \in Runs :
          /\ r.timer = "sync" /\ Applied(r.m) /\ r.st.out = "accept"
          /\ idle.m = r.m /\ idle.timer = "none"
          /\ PurgeZero(idle.st.book.Diff.Bid) # {}
          /\ \E pkt \in BookRecords(r.st) : pkt.type = "Sync"
          /\ Cardinality(BookRecords(r.st)) = 1

\* Text frames whose event type has no handler or whose stream / channel
\* maps to no book.
UnknownFrames ==
    IF exchange = "binance"
    THEN {m \in BinanceOther : m.kind = "text"}
    ELSE {m \in BitstampOther : m.kind = "text" /\ m.event \notin PusherEvents}

\* C18: an event of unknown type, or for a stream / channel without a book,
\* is dropped with no effect in every book state: the book (sequence, synced
\* flag, levels, pending diff, trades) and the batch state stay as they
\* are, SyncBook is not invoked, no record is written and the loop reads on.
C18_UnknownDropped ==
    pc = "read" =>
        \A m \in UnknownFrames, timer \in AllTimers, fetch \in FetchOutcomes :
            LET st == IF exchange = "binance"
                      THEN BinanceBody(Client, m, initialSync, dbEnabled, fetch, timer)
                      ELSE BitstampBody(Client, m, dbEnabled, fetch, timer)
            IN  /\ st.book = book
                /\ st.batch = batch
                /\ st.store = <<>>
                /\ st.out = outcome

\* C19: every Diff record written has first <= last, that is
\* batch.LastDiffSeq <= book.Sequence whenever WriteDiff writes.
C19_DiffRangeWellFormed ==
    pc = "read" =>
        \A r \in Runs : \A pkt \in Records(r.st) :
            pkt.type = "Diff" => pkt.first <= pkt.last

\* C20: while the book has never been initialised from a snapshot (it is as
\* constructed) and the snapshot fetch fails, every event for it is
\* dropped, nothing being applied or written, and each depth update or
\* trade for it makes SyncBook try again.
C20_NothingBeforeSnapshot ==
    (pc = "read" /\ book = NewBook) =>
        \A r \in Runs :
            /\ r.st.book = book
            /\ r.st.batch = batch
            /\ r.st.store = <<>>
            /\ (r.m \in BinanceDepth \cup BinanceTrades \cup BitstampDepth \cup BitstampTrades)
                  => r.st.out = "sync"

====
